---- MODULE Spec2Model ----
(***************************************************************************)
(* State-machine model of the GB-Neck graph-network energy models of       *)
(* MachineLearning/GNN_Models.py.                                          *)
(*                                                                         *)
(* Numbers are fixed point.  Lengths (positions, cutoff radii) are in      *)
(* tenths of the code's length unit, so radius = 0.4 is 4 and              *)
(* gbneck_radius = 13.0 is 130.  Sigmoid values, lambdas, the lambda       *)
(* scales and the correction fraction are in thousandths (1.0 is 1000).    *)
(* Positions are one-dimensional: every quantity the models compute from   *)
(* positions goes through the pairwise distance.                           *)
(***************************************************************************)
EXTENDS Integers, Sequences, FiniteSets, TLC

\* ------------------------------------------------------------------ bounds

\* largest number of atoms of one call
MaxAtoms == 3
\* largest number of molecules (batch ids 0 .. MaxMol-1, lambda entries)
MaxMol == 2
\* largest number of replicas of a run_multiple model
MaxReps == 2
\* largest number of groups (molecules) of a dataset file
MaxKeys == 2
\* largest number of frames of a group, and largest frame_index
MaxFrames == 2

\* ---------------------------------------------------------- program constants

\* self.gbneck_radius = 13.0
gbneck_radius == 130
\* radius=0.4, the short-range cutoff (self._gnn_radius)
gnn_radius == 4
\* max_num_neighbors=32
max_num_neighbors == 32
\* fraction=0.5
default_fraction == 500
\* 1.0 in thousandths
One == 1000
\* (radius + 0.14) in hundredths of the length unit
sa_probe == 14
\* self.offset = 0.0195141, in hundredths of the length unit
offset == 2
\* 4.184 * gamma * 100 with gamma = 0.00542, in tenths (2.2677...)
sa_coeff == 23

\* ------------------------------------------------------------------ inputs

\* coordinates a caller may pass: pairs at distance 3 (inside the short
\* cutoff), 128 (between the cutoffs) and 131 (beyond the long cutoff)
PosSet == {0, 3, 131}
\* coordinates a caller may pass to a run_multiple model: also a pair at
\* distance 5, between the short cutoff and the hard-coded slice
RunPosSet == {0, 3, 5, 131}
\* the fixed geometry of the batching cases: atoms 1 and 2 inside the short
\* cutoff, atom 3 beyond it
Pattern == <<0, 3, 131>>
\* lambda values a caller may pass
LamSet == {0, One}
\* correction fractions a model may be constructed with
FractionSet == {0, default_fraction, One}

\* the per-atom GB parameter rows (charge, intrinsic radius in hundredths,
\* screening scale) of the molecule the model is built for
ParamTable ==
  <<[q |-> 1, r |-> 15, s |-> 1], [q |-> -1, r |-> 17, s |-> 1],
    [q |-> 1, r |-> 12, s |-> 2], [q |-> -1, r |-> 15, s |-> 2]>>

\* an optional argument: None, or a value
None == [given |-> FALSE, val |-> << >>]
Some(v) == [given |-> TRUE, val |-> v]

\* ------------------------------------------------------------------ helpers

Abs(x) == IF x < 0 THEN -x ELSE x

RECURSIVE SumSeq(_)
SumSeq(s) == IF s = << >> THEN 0 ELSE Head(s) + SumSeq(Tail(s))

RECURSIVE SumFn(_, _)
SumFn(f, S) ==
  IF S = {} THEN 0
  ELSE LET e == CHOOSE e \in S : TRUE IN f[e] + SumFn(f, S \ {e})

\* the tuple <<f[1], ..., f[n]>> of a function on 1..n
RECURSIVE Tup(_, _)
Tup(f, n) == IF n = 0 THEN << >> ELSE Append(Tup(f, n - 1), f[n])

\* nondecreasing batch-id vectors of n atoms (a collated batch is sorted)
SortedBatches(n) ==
  {b \in [1..n -> 0..(MaxMol - 1)] : \A i \in 1..(n - 1) : b[i] <= b[i + 1]}

\* nn.Sigmoid in thousandths, on integer arguments: 1 / (1 + exp(-x)) lies
\* strictly between 0 and 1, so the ends round inwards
Sigmoid(x) ==
  IF x >= 7 THEN 999
  ELSE IF x <= -7 THEN 1
  ELSE CASE x = -6 -> 2 [] x = -5 -> 7 [] x = -4 -> 18
         [] x = -3 -> 47 [] x = -2 -> 119 [] x = -1 -> 269 [] x = 0 -> 500
         [] x = 1 -> 731 [] x = 2 -> 881 [] x = 3 -> 953 [] x = 4 -> 982
         [] x = 5 -> 993 [] x = 6 -> 998

\* nn.SiLU: x * sigmoid(x)
SiLU(x) == (x * Sigmoid(x)) \div 1000

\* ------------------------------------------------------------ learned weights

\* The weights of the interaction layers (a: own state, m: message, b: bias)
\* and of the two lambda networks (a: gain, b: bias).
W1 ==
  [l1 |-> [a |-> 1, m |-> 1, b |-> 0], c |-> [a |-> 1, m |-> 1, b |-> 0],
   sa |-> [a |-> 1, m |-> 0, b |-> 1],
   ffs |-> [a |-> 2, b |-> 0], ffe |-> [a |-> 1, b |-> 1]]
W2 ==
  [l1 |-> [a |-> 1, m |-> 0, b |-> 1], c |-> [a |-> 2, m |-> 1, b |-> -9],
   sa |-> [a |-> -1, m |-> 1, b |-> -2],
   ffs |-> [a |-> 0, b |-> -3], ffe |-> [a |-> -2, b |-> 4]]
W3 ==
  [l1 |-> [a |-> -1, m |-> 1, b |-> 2], c |-> [a |-> 1, m |-> 2, b |-> 9],
   sa |-> [a |-> 0, m |-> 0, b |-> 0],
   ffs |-> [a |-> 7, b |-> 7], ffe |-> [a |-> 0, b |-> 0]]
WeightSet == {W1, W2, W3}

\* --------------------------------------------------------------- the graphs

SameGraph(batch, i, j) ==
  IF batch.given THEN batch.val[i] = batch.val[j] ELSE TRUE

\* radius_graph(x, r, batch, loop=False, max_num_neighbors, 'source_to_target'):
\* the edges <<source, target>> between distinct atoms of one graph closer than
\* r; a target keeps the first max_num_neighbors + 1 points found in index
\* order (itself among them), and its self loop is then removed.  Which
\* neighbours survive the cap is the library's choice; the scan in index order
\* is the one modelled.
radius_graph(pos, r, batch, maxnb) ==
  LET n == Len(pos)
      into(i) ==
        LET near == {j \in 1..n : SameGraph(batch, i, j) /\ Abs(pos[i] - pos[j]) < r}
            kept == {j \in near : Cardinality({k \in near : k < j}) < maxnb + 1}
        IN {<<j, i>> : j \in kept \ {i}}
  IN UNION {into(i) : i \in 1..n}

\* self._distancer(positions[edge_index[0]], positions[edge_index[1]])
distancer(pos, E) == [e \in E |-> Abs(pos[e[1]] - pos[e[2]])]

\* The edges into atom i
InEdges(E, i) == {e \in E : e[2] = i}

\* ------------------------------------------------- layers of GNN_Layers.py

\* GBNeck_interaction: per atom the raw Born term B (millionths of the length
\* unit, a multiple of 1000) and the charge.  Every neighbour of the long-range
\* graph adds a screening term that falls off with the distance; an atom
\* without neighbours keeps its intrinsic radius term.
Screen(d, xj) == (10 * xj.r * xj.s) \div (d + 10)

aggregate_information(x, E, d) ==
  Tup([i \in 1..Len(x) |->
         [B |-> 10000 * x[i].r
                  + 1000 * SumFn([e \in InEdges(E, i) |-> Screen(d[e], x[e[1]])],
                                 InEdges(E, i)),
          q |-> x[i].q]], Len(x))

\* GBNeck_energies: the pairwise GB polarization energy of every atom, a self
\* term plus one term per incoming edge of the long-range graph.
PairTerm(qi, qj, d, Bi, Bj) == (10000 * qi * qj) \div (100 * d + (Bi + Bj) \div 2000 + 1)

calculate_energies(Bc, E, d) ==
  Tup([i \in 1..Len(Bc) |->
         0 - ((10000 * Bc[i].q * Bc[i].q) \div (Bc[i].B \div 1000 + 1))
           - SumFn([e \in InEdges(E, i) |->
                      PairTerm(Bc[i].q, Bc[e[1]].q, d[e], Bc[i].B, Bc[e[1]].B)],
                   InEdges(E, i))], Len(Bc))

\* The edge feature of the interaction layers: largest at distance 0, falling
\* to 0 at the short-range cutoff.
Kern(d) == IF d < gnn_radius THEN gnn_radius - d ELSE 0

\* IN_layer_all_swish_2pass, one output channel: the atom's own state through
\* one transform plus the sum over its incoming edges of a message made of the
\* source state and the edge feature.
IN_layer(wt, st, E, d) ==
  Tup([i \in 1..Len(st) |->
         wt.b + wt.a * st[i]
           + SumFn([e \in InEdges(E, i) |-> wt.m * (st[e[1]] + Kern(d[e]))],
                   InEdges(E, i))], Len(st))

\* A lambda network (Linear, SiLU, Linear, Sigmoid) on one lambda value
lambda_ff(wt, lam) == Sigmoid(wt.b + (wt.a * lam) \div One)

\* ------------------------------------------------------ the main forward

\* The rows a caller passes as atom_features: the parameter rows with the two
\* lambda columns of the atom's own molecule (an atom of a molecule without a
\* lambda entry carries 0), as the dataset item of MAFBigBind builds them.
AtomFeatures(n, batch, lamE, lamS) ==
  LET b(i) == IF batch.given THEN batch.val[i] ELSE 0
      col(lam, i) == IF b(i) < Len(lam) THEN lam[b(i) + 1] ELSE 0
  IN Tup([i \in 1..n |->
            [q |-> ParamTable[i].q, r |-> ParamTable[i].r, s |-> ParamTable[i].s,
             le |-> col(lamE, i), ls |-> col(lamS, i)]], n)

\* the output of the lambda network alone, not multiplied by lambda
lambda_scale_ff_only(wt, lam) ==
  Tup([k \in 1..Len(lam) |-> lambda_ff(wt, lam[k])], Len(lam))

\* sterics_ff(lambda.view(-1, 1)) * lambda.view(-1, 1): one scale per entry
lambda_scale(wt, lam) ==
  Tup([k \in 1..Len(lam) |-> (lambda_ff(wt, lam[k]) * lam[k]) \div One], Len(lam))

\* lambda.view(-1, 1).expand(n, 1): a column of one row is repeated, a column
\* of n rows is kept, any other length is an error
ExpandOK(lam, n) == Len(lam) = 1 \/ Len(lam) = n
Expand(lam, n) == Tup([i \in 1..n |-> IF Len(lam) = 1 THEN lam[1] ELSE lam[i]], n)

\* torch.cat([self.gnn_params, lambda_electrostatics..., lambda_sterics...])
gnn_features(gp, lamE, lamS, n) ==
  LET le == Expand(lamE, n)
      ls == Expand(lamS, n)
  IN Tup([i \in 1..n |->
            [q |-> gp[i].q, r |-> gp[i].r, s |-> gp[i].s, le |-> le[i], ls |-> ls[i]]],
         n)

\* scale[batch]: the row of every atom's batch id
IndexOK(scale, batch) == \A i \in 1..Len(batch) : batch[i] < Len(scale)
TakeBatch(scale, batch) == Tup([i \in 1..Len(batch) |-> scale[batch[i] + 1]], Len(batch))

\* The factor of (radius + 0.14)^2 in the SA term of the main forward, in
\* thousandths: sa_scale as the network returns it
sa_factor(sa_scale) == One * sa_scale

\* 4.184 * gamma * factor * (radius + 0.14).pow(2) * 100, radius = x[:, 1] + offset
sa_energy(factor, r) ==
  (sa_coeff * factor * (r + offset + sa_probe) * (r + offset + sa_probe))
    \div (100 * One)

\* the multiplier with 1 instead of the fraction as its base
born_multiplier_unit_base(fr, c) == One + (Sigmoid(c) * ((One - fr) * 2)) \div One

\* the multiplier interpolated between the fraction and 1
born_multiplier_to_one(fr, c) == fr + (Sigmoid(c) * (One - fr)) \div One

\* self._fraction + self.sigmoid(c_scale) * (1 - self._fraction) * 2
born_multiplier(fr, c) == fr + (Sigmoid(c) * ((One - fr) * 2)) \div One

\* Bc[:, 0].unsqueeze(1) * multiplier
born_correction(B, mult) == (B * mult) \div One

\* with torch.no_grad(): what is computed inside is cut from the autograd graph
no_grad(tracked) == FALSE

\* the features of the first interaction layer (Born term, charge, radius and
\* the two lambda scales), reduced to one channel
NodeState(Bc, x, l_s, l_e) ==
  Tup([i \in 1..Len(x) |->
         Bc[i].B \div 100000 + Bc[i].q + (l_s[i] + l_e[i]) \div 500], Len(x))

NoForces == [n |-> 0, gb |-> FALSE, sa |-> FALSE]
Raise(e) == [kind |-> "raise", energy |-> << >>, forces |-> NoForces, error |-> e]
NoResult == [kind |-> "", energy |-> << >>, forces |-> NoForces, error |-> ""]

NoLocals ==
  [batch |-> << >>, x |-> << >>, l_electrostatics |-> << >>, l_sterics |-> << >>,
   edge_index |-> {}, gnn_edge_index |-> {}, Bc |-> << >>, c_scale |-> << >>,
   sa_scale |-> << >>, sa_factor |-> << >>, multiplier |-> << >>, Bcn |-> << >>,
   elec_energies |-> << >>, sa_energies |-> << >>, energies |-> << >>]

\* GNN3_all_swish_multiple_peptides_GBNeck_trainable_dif_graphs_corr_with_separate_SA
\* .forward on a model with attributes gp (gnn_params), fr (_fraction), mnn
\* (_max_num_neighbors) and w (the weights), with the arguments a.  The result: [ret, loc], what the call
\* returns or raises and the per-atom state it computed.
forward(gp, fr, mnn, w, a) ==
  LET n == Len(a.positions)
      edge_index == radius_graph(a.positions, gbneck_radius, a.batch, mnn)
      gnn_edge_index == radius_graph(a.positions, gnn_radius, a.batch, mnn)
      edge_attributes == distancer(a.positions, edge_index)
      gnn_edge_attributes == distancer(a.positions, gnn_edge_index)
      sterics_scale == lambda_scale(w.ffs, a.lambda_sterics)
      electrostatics_scale == lambda_scale(w.ffe, a.lambda_electrostatics)
      batch == IF a.batch.given THEN a.batch.val
               ELSE Tup([i \in 1..Len(gp.val) |-> 0], Len(gp.val))
      x == IF gp.given
           THEN gnn_features(gp.val, a.lambda_electrostatics, a.lambda_sterics, n)
           ELSE a.atom_features.val
      l_electrostatics == TakeBatch(electrostatics_scale, batch)
      l_sterics == TakeBatch(sterics_scale, batch)
      Bc == aggregate_information(x, edge_index, edge_attributes)
      h1 == IN_layer(w.l1, NodeState(Bc, x, l_sterics, l_electrostatics),
                     gnn_edge_index, gnn_edge_attributes)
      h == Tup([i \in 1..n |-> SiLU(h1[i])], n)
      c_scale == IN_layer(w.c, h, gnn_edge_index, gnn_edge_attributes)
      sa_scale == IN_layer(w.sa, h, gnn_edge_index, gnn_edge_attributes)
      factor == Tup([i \in 1..n |-> sa_factor(sa_scale[i])], n)
      sa_energies == Tup([i \in 1..n |-> sa_energy(factor[i], x[i].r)], n)
      multiplier == Tup([i \in 1..n |-> born_multiplier(fr, c_scale[i])], n)
      Bcn == Tup([i \in 1..n |-> [B |-> born_correction(Bc[i].B, multiplier[i]),
                                  q |-> Bc[i].q]], n)
      elec_energies == calculate_energies(Bcn, edge_index, edge_attributes)
      energies == Tup([i \in 1..n |-> elec_energies[i] * l_electrostatics[i]
                                        + sa_energies[i] * l_sterics[i]], n)
      \* which tensors the autograd graph ties to the positions
      pos_tracked == TRUE
      Bc_tracked == pos_tracked
      sa_tracked == Bc_tracked
      elec_tracked == no_grad(Bc_tracked)
      forces == [n |-> n, gb |-> elec_tracked, sa |-> sa_tracked]
      loc == [batch |-> batch, x |-> x, l_electrostatics |-> l_electrostatics,
              l_sterics |-> l_sterics, edge_index |-> edge_index,
              gnn_edge_index |-> gnn_edge_index, Bc |-> Bc, c_scale |-> c_scale,
              sa_scale |-> sa_scale, sa_factor |-> factor,
              multiplier |-> multiplier, Bcn |-> Bcn,
              elec_energies |-> elec_energies, sa_energies |-> sa_energies,
              energies |-> energies]
  IN
  IF ~a.batch.given /\ ~gp.given
    THEN [ret |-> Raise("TypeError: object of type 'NoneType' has no len()"),
          loc |-> NoLocals]
  ELSE IF gp.given /\ ~(ExpandOK(a.lambda_electrostatics, n)
                          /\ ExpandOK(a.lambda_sterics, n))
    THEN [ret |-> Raise("RuntimeError: expand"), loc |-> NoLocals]
  ELSE IF ~gp.given /\ ~a.atom_features.given
    THEN [ret |-> Raise("No GNN Params Given"), loc |-> NoLocals]
  ELSE IF ~(IndexOK(electrostatics_scale, batch) /\ IndexOK(sterics_scale, batch))
    THEN [ret |-> Raise("IndexError: index out of range"), loc |-> NoLocals]
  ELSE IF ~(elec_tracked \/ sa_tracked)
    THEN [ret |-> Raise("RuntimeError: does not require grad"), loc |-> NoLocals]
  ELSE IF a.retrieve_forces
    THEN [ret |-> [kind |-> "tuple", energy |-> <<SumSeq(energies)>>,
                   forces |-> forces, error |-> ""],
          loc |-> loc]
  ELSE [ret |-> [kind |-> "None", energy |-> << >>, forces |-> NoForces,
                 error |-> ""],
        loc |-> loc]

\* JitGNN.forward: energies, forces = super().forward(...); return (energies, forces)
jit_forward(gp, fr, mnn, w, a) ==
  LET inner == forward(gp, fr, mnn, w, a)
  IN IF inner.ret.kind = "None"
       THEN [ret |-> Raise("TypeError: cannot unpack non-iterable NoneType object"),
             loc |-> inner.loc]
     ELSE inner

\* ------------------------------------------------------- get_edge_features

\* the arguments a caller may pass: a distance in tenths, alpha, the range
\* <<min_range, max_range>> in tenths and num_kernels
DistanceSet == 0..5
AlphaSet == {1, 2}
RangeSet == {<<0, 4>>, <<1, 4>>}
KernelCounts == {1, 2, 3}

\* Lengths inside get_edge_features are exact fractions of a tenth: integers
\* in units of a tenth divided by Scale(num_kernels), the common denominator
\* of the margin and of the steps of linspace.
Scale(num_kernels) == (num_kernels + 1) * (IF num_kernels > 1 THEN num_kernels - 1 ELSE 1)

\* m = alpha * (max_range - min_range) / (num_kernels + 1)
margin(alpha, max_range, min_range, num_kernels) ==
  (alpha * (max_range - min_range) * Scale(num_kernels)) \div (num_kernels + 1)

\* torch.linspace(lower_bound, upper_bound, num_kernels)
linspace(lower_bound, upper_bound, num_kernels) ==
  Tup([j \in 1..num_kernels |->
         IF num_kernels = 1 THEN lower_bound
         ELSE lower_bound + ((j - 1) * (upper_bound - lower_bound)) \div (num_kernels - 1)],
      num_kernels)

Max0(x) == IF x < 0 THEN 0 ELSE x

\* the kernel with the square instead of the cube
kernel_value_square(k, m) ==
  [num |-> Max0((m * m - k * k) * (m * m - k * k)), den |-> m * m * m * m]

\* torch.maximum(0, torch.pow(1 - (k / m)**2, 3)) as the fraction num / den
kernel_value(k, m) ==
  [num |-> Max0((m * m - k * k) * (m * m - k * k) * (m * m - k * k)),
   den |-> m * m * m * m * m * m]

\* get_edge_features(distances, alpha, max_range, min_range, num_kernels) for
\* one distance: the centers, the margin (both in units of 1 / Scale) and one
\* kernel value per center
get_edge_features(distance, alpha, max_range, min_range, num_kernels) ==
  LET m == margin(alpha, max_range, min_range, num_kernels)
      lower_bound == min_range * Scale(num_kernels) + m
      upper_bound == max_range * Scale(num_kernels) - m
      centers == linspace(lower_bound, upper_bound, num_kernels)
      k == Tup([j \in 1..Len(centers) |->
                  distance * Scale(num_kernels) - centers[j]], Len(centers))
  IN [kind |-> "features", error |-> "", margin |-> m, centers |-> centers,
      val |-> Tup([j \in 1..Len(k) |-> kernel_value(k[j], m)], Len(k))]

\* ------------------------------------------------------ the base forwards

\* self._gbparameters.repeat(k, 1)
repeat(rows, k) ==
  Tup([i \in 1..(k * Len(rows)) |->
         LET p == rows[((i - 1) % Len(rows)) + 1]
         IN [q |-> p.q, r |-> p.r, s |-> p.s, le |-> 0, ls |-> 0]], k * Len(rows))

MaxOf(sq) == CHOOSE m \in {sq[i] : i \in 1..Len(sq)} :
               \A i \in 1..Len(sq) : sq[i] <= m

\* energy = torch.empty((max(batch) + 1, 1)); for batch in data.batch.unique():
\* energy[batch] = energies[torch.where(data.batch == batch)].sum().  A row of
\* a batch id no atom carries keeps what torch.empty left there (junk).
energy_per_batch(energies, batch, junk) ==
  Tup([k \in 1..(MaxOf(batch) + 1) |->
         LET atoms == {i \in 1..Len(batch) : batch[i] = k - 1}
         IN IF atoms = {} THEN junk ELSE SumFn(energies, atoms)], MaxOf(batch) + 1)

\* GNN_GBNeck.forward (two == FALSE) and GNN_GBNeck_2.forward (two == TRUE) on a
\* model with parameter rows gbp, cutoff r, neighbour cap mnn and the data
\* object a
gbneck_forward(two, gbp, r, mnn, a, junk) ==
  LET n == Len(a.positions)
      edge_index == radius_graph(a.positions, r, a.batch, mnn)
      edge_attributes == distancer(a.positions, edge_index)
      x == IF two THEN a.atom_features.val
           ELSE repeat(gbp, MaxOf(a.batch.val) + 1)
      Bc == aggregate_information(x, edge_index, edge_attributes)
      energies == calculate_energies(Bc, edge_index, edge_attributes)
      forces == [n |-> n, gb |-> TRUE, sa |-> FALSE]
      loc == [NoLocals EXCEPT !.batch = a.batch.val, !.x = x,
                !.edge_index = edge_index, !.Bc = Bc, !.Bcn = Bc,
                !.elec_energies = energies, !.energies = energies]
  IN
  IF ~two /\ n # 1
    THEN [ret |-> Raise("ValueError: only one element tensors can be converted"),
          loc |-> NoLocals]
  ELSE IF ~a.batch.given
    THEN [ret |-> Raise("TypeError: max(): argument 'input' must be Tensor, not NoneType"),
          loc |-> NoLocals]
  ELSE [ret |-> [kind |-> "tuple",
                 energy |-> energy_per_batch(energies, a.batch.val, junk),
                 forces |-> forces, error |-> ""],
        loc |-> loc]

\* -------------------------------------------------- the run_multiple model

\* the slot without the shift of the partners after the node itself
edge_slot_no_shift(r, node, con, num_nodes) ==
  r * (num_nodes * (num_nodes - 1)) + node * (num_nodes - 1) + con

\* the column of the edge (node, con) of replica r:
\* rep * elements_per_rep + node * (num_nodes - 1) + con, less 1 when con > node
edge_slot(r, node, con, num_nodes) ==
  IF con < node
    THEN r * (num_nodes * (num_nodes - 1)) + node * (num_nodes - 1) + con
    ELSE r * (num_nodes * (num_nodes - 1)) + node * (num_nodes - 1) + con - 1

\* build_edge_idx(num_nodes, num_reps): the slots of the edge index, each a pair
\* <<source, target>> of atom numbers counted from 0.  A slot holds what the
\* last assignment of the three nested loops stored in it, and <<0, 0>> (the
\* initial torch.zeros) when no assignment reached it.
build_edge_idx(num_nodes, num_reps) ==
  LET elements_per_rep == num_nodes * (num_nodes - 1)
      Steps == {st \in (0..(num_reps - 1)) \X (0..(num_nodes - 1)) \X (0..(num_nodes - 1)) :
                  st[3] # st[2]}
      slot(st) == edge_slot(st[1], st[2], st[3], num_nodes)
      rank(st) == (st[1] * num_nodes + st[2]) * num_nodes + st[3]
      writers(k) == {st \in Steps : slot(st) = k}
      last(k) == CHOOSE st \in writers(k) : \A o \in writers(k) : rank(o) <= rank(st)
  IN Tup([k \in 1..(num_reps * elements_per_rep) |->
            IF writers(k - 1) = {} THEN <<0, 0>>
            ELSE <<last(k - 1)[1] * num_nodes + last(k - 1)[2],
                   last(k - 1)[1] * num_nodes + last(k - 1)[3]>>],
         num_reps * elements_per_rep)

\* set_num_reps: self._batch, the replica number of every row
rep_batch(num_nodes, num_reps) ==
  Tup([i \in 1..(num_reps * num_nodes) |-> (i - 1) \div num_nodes],
      num_reps * num_nodes)

\* the hard-coded slice of the short-range edges: edge_attributes < 0.6
gnn_slice == 6

\* self.sigmoid(sa_scale.unsqueeze(1)), the factor of (radius + 0.14)**2
run_sa_factor(sa_scale) == Sigmoid(sa_scale)

\* ..._run_multiple.forward(positions) on a model with the cached edge index
\* ei, the replicated parameter rows bgp, the fraction fr and the weights w
run_forward(ei, bgp, fr, w, positions) ==
  LET n == Len(bgp)
      edge_index == {<<ei[k][1] + 1, ei[k][2] + 1>> : k \in 1..Len(ei)}
      edge_attributes == distancer(positions, edge_index)
      gnn_edge_index == {e \in edge_index : edge_attributes[e] < gnn_slice}
      gnn_edge_attributes == [e \in gnn_edge_index |-> edge_attributes[e]]
      x == bgp
      Bc == aggregate_information(x, edge_index, edge_attributes)
      s0 == Tup([i \in 1..n |-> Bc[i].B \div 100000 + Bc[i].q], n)
      h1 == IN_layer(w.l1, s0, gnn_edge_index, gnn_edge_attributes)
      h2 == IN_layer(w.l1, Tup([i \in 1..n |-> SiLU(h1[i])], n), gnn_edge_index,
                     gnn_edge_attributes)
      h == Tup([i \in 1..n |-> SiLU(h2[i])], n)
      c_scale == IN_layer(w.c, h, gnn_edge_index, gnn_edge_attributes)
      sa_scale == IN_layer(w.sa, h, gnn_edge_index, gnn_edge_attributes)
      factor == Tup([i \in 1..n |-> run_sa_factor(sa_scale[i])], n)
      sa_energies == Tup([i \in 1..n |-> sa_energy(factor[i], x[i].r)], n)
      multiplier == Tup([i \in 1..n |-> born_multiplier(fr, c_scale[i])], n)
      Bcn == Tup([i \in 1..n |-> [B |-> born_correction(Bc[i].B, multiplier[i]),
                                  q |-> Bc[i].q]], n)
      elec_energies == calculate_energies(Bcn, edge_index, edge_attributes)
      energies == Tup([i \in 1..n |-> elec_energies[i] + sa_energies[i]], n)
      loc == [NoLocals EXCEPT !.x = x, !.edge_index = edge_index,
                !.gnn_edge_index = gnn_edge_index, !.Bc = Bc,
                !.c_scale = c_scale, !.sa_scale = sa_scale,
                !.sa_factor = factor, !.multiplier = multiplier, !.Bcn = Bcn,
                !.elec_energies = elec_energies,
                !.sa_energies = sa_energies, !.energies = energies]
  IN
  IF \E e \in edge_index : e[1] > Len(positions) \/ e[2] > Len(positions)
    THEN [ret |-> Raise("IndexError: index out of range"), loc |-> NoLocals]
  ELSE IF \E e \in edge_index : e[1] > n \/ e[2] > n
    THEN [ret |-> Raise("IndexError: index out of range"), loc |-> NoLocals]
  ELSE [ret |-> [kind |-> "tensor", energy |-> <<SumSeq(energies)>>,
                 forces |-> NoForces, error |-> ""],
        loc |-> loc]

\* ------------------------------------------------------------ the datasets

\* the number of atoms of a group of the file: none (empty positions), or some
AtomCounts == {0, 2}

\* a group of the h5 file: positions of shape (frames, atoms, 3)
Groups == [frames : 1..MaxFrames, atoms : AtomCounts]

\* self.file with self.keys: the groups in key order
Files == UNION {[1..L -> Groups] : L \in 1..MaxKeys}

\* the item a dataset returns (Data or MDData): the molecule and the frame its
\* positions come from, and their number of atoms
Item(kind, mol, frame, natoms) ==
  [kind |-> kind, error |-> "", mol |-> mol, frame |-> frame, natoms |-> natoms]

\* MAFBigBind.__getitem__(index) on the file f
maf_getitem(f, index) ==
  IF index >= Len(f) THEN Raise("IndexError: Index out of bounds")
  ELSE IF f[index + 1].atoms = 0
    THEN Raise("IndexError: Empty positions encountered")
  ELSE Item("Data", index, 0, f[index + 1].atoms)

\* BigBindSolvDataset.__getitem__(index) on the file f with frame_index fi;
\* rnd is what torch.randint(0, frames) draws when the group has fewer frames
bigbind_getitem(f, fi, index, rnd) ==
  LET index_mod == index % Len(f)
      group == f[index_mod + 1]
      frame_idx == IF group.frames < fi THEN rnd ELSE index % fi
  IN Item("MDData", index_mod, frame_idx, group.atoms)

\* BigBindSolvDataset.__len__
bigbind_len(f, fi) == Len(f) * fi

\* ------------------------------------------------------------------ state

VARIABLES
  cls,                  \* the class of the model object
  _gbparameters,        \* self._gbparameters, the parameter rows
  gnn_params,           \* self.gnn_params (optional)
  _fraction,            \* self._fraction
  _max_num_neighbors,   \* self._max_num_neighbors
  weights,              \* the learned weights
  _num_reps,            \* self._num_reps (run_multiple)
  _batch,               \* self._batch (run_multiple)
  _batch_gbparameters,  \* self._batch_gbparameters (run_multiple)
  _edge_index,          \* self._edge_index (run_multiple)
  file,                 \* self.file of a dataset, its groups in key order
  frame_index,          \* self.frame_index (BigBindSolvDataset)
  caller_pos,           \* the caller's positions tensor, or the pos of its data
  pc,                   \* "idle", or "done": a call has ended
  call,                 \* the arguments of the call that ended
  result,               \* what it returned or raised
  locals                \* the per-atom state it computed

vars == <<cls, _gbparameters, gnn_params, _fraction, _max_num_neighbors, weights,
          _num_reps, _batch, _batch_gbparameters, _edge_index, file, frame_index,
          caller_pos, pc, call, result, locals>>

model == <<cls, _gbparameters, gnn_params, _fraction, _max_num_neighbors, weights>>
reps == <<_num_reps, _batch, _batch_gbparameters, _edge_index>>
dataset == <<file, frame_index>>

MainClasses == {"GNN3", "JitGNN"}
BaseClasses == {"GNN_GBNeck", "GNN_GBNeck_2"}
RunClass == "run_multiple"
DataClasses == {"MAFBigBind", "BigBindSolvDataset"}

NoCall ==
  [op |-> "", positions |-> << >>, lambda_sterics |-> << >>,
   lambda_electrostatics |-> << >>, retrieve_forces |-> FALSE,
   batch |-> None, atom_features |-> None]

Prefix(n) == SubSeq(ParamTable, 1, n)

\* torch.empty leaves in a row nobody writes
JunkSet == {0, 4242}

\* radius=0.4, the cutoff of a base model
base_radius == 4

\* gbneck_radius=10.0, the long-range cutoff a run_multiple model is built with
run_gbneck_radius == 100

\* self._radius, the cutoff of the long-range graph the model of class c is
\* constructed with
long_range_cutoff(c) ==
  IF c \in MainClasses THEN gbneck_radius
  ELSE IF c = RunClass THEN run_gbneck_radius
  ELSE base_radius

\* max_num_neighbors = 10000 of a run_multiple model
run_max_num_neighbors == 10000

\* the max_num_neighbors a model may be constructed with: the default, and a
\* cap that the molecules of the model reach
CapSet == {1, max_num_neighbors}

\* A tensor as its holder sees it: which tensor object it is, and its
\* gradient-tracking flag.
Tensor(id, flag) == [id |-> id, requires_grad |-> flag]

\* the positions a caller holds before a call: a tensor of its own, tracking
\* gradients or not
CallerTensors == {Tensor(1, flag) : flag \in BOOLEAN}

\* t.requires_grad_(True): sets the flag of t itself
requires_grad_(t) == [t EXCEPT !.requires_grad = TRUE]

\* t.clone().detach(): another tensor, not tracking gradients
clone_detach(t) == Tensor(t.id + 1, FALSE)

\* ------------------------------------------------------------------ Init

NoDataset == file = << >> /\ frame_index = 0

InitMain ==
  /\ cls \in MainClasses
  /\ NoDataset
  /\ _gbparameters = << >>
  /\ gnn_params \in {None} \cup {Some(Prefix(n)) : n \in 1..MaxAtoms}
  /\ _fraction \in FractionSet
  /\ _max_num_neighbors \in CapSet
  /\ weights \in WeightSet
  /\ _num_reps = 0 /\ _batch = << >> /\ _batch_gbparameters = << >>
  /\ _edge_index = << >>

InitBase ==
  /\ cls \in BaseClasses
  /\ NoDataset
  /\ _gbparameters \in {Prefix(n) : n \in 1..MaxAtoms}
  /\ gnn_params = None
  /\ _fraction = default_fraction
  /\ _max_num_neighbors \in CapSet
  /\ weights = W1
  /\ _num_reps = 0 /\ _batch = << >> /\ _batch_gbparameters = << >>
  /\ _edge_index = << >>

\* the run_multiple constructor: set_num_reps(num_reps), then
\* self._edge_index = self.build_edge_idx(len(parameters), num_reps)
InitRun ==
  /\ cls = RunClass
  /\ NoDataset
  /\ \E n \in 1..MaxAtoms, k \in 1..MaxReps :
       /\ n * k <= MaxAtoms + 1
       /\ _gbparameters = Prefix(n)
       /\ _num_reps = k
       /\ _batch = rep_batch(n, k)
       /\ _batch_gbparameters = repeat(Prefix(n), k)
       /\ _edge_index = build_edge_idx(n, k)
  /\ gnn_params = None
  /\ _fraction \in FractionSet
  /\ _max_num_neighbors = run_max_num_neighbors
  /\ weights \in WeightSet

\* a dataset opened on a file; a MAFBigBind has no frame_index
InitData ==
  /\ cls \in DataClasses
  /\ file \in Files
  /\ frame_index \in (IF cls = "MAFBigBind" THEN {0} ELSE 1..MaxFrames)
  /\ _gbparameters = << >> /\ gnn_params = None
  /\ _fraction = default_fraction
  /\ _max_num_neighbors = max_num_neighbors
  /\ weights = W1
  /\ _num_reps = 0 /\ _batch = << >> /\ _batch_gbparameters = << >>
  /\ _edge_index = << >>

Init ==
  /\ pc = "idle" /\ call = NoCall /\ result = NoResult /\ locals = NoLocals
  /\ caller_pos \in CallerTensors
  /\ (InitMain \/ InitBase \/ InitRun \/ InitData)

\* ------------------------------------------------------------------ actions

\* The arguments a caller may pass to the main forward of a model whose
\* gnn_params are gp.  Two families: every geometry of one molecule (all batch
\* ids 0) with one pair of lambdas, and every batching (batch omitted, or any
\* sorted batch vector) with every lambda array, the same for sterics and
\* electrostatics, over the fixed geometry Layout(n).
Layout(n) == Tup([i \in 1..n |-> Pattern[((i - 1) % Len(Pattern)) + 1]], n)

Arg(pos, ls, le, rf, b) ==
  [op |-> "", positions |-> pos, lambda_sterics |-> ls,
   lambda_electrostatics |-> le, retrieve_forces |-> rf, batch |-> b,
   atom_features |-> None]

Sizes(gp) == IF gp.given THEN {Len(gp.val)} ELSE 1..MaxAtoms

GeometryArgs(gp) ==
  UNION {{Arg(pos, <<ls>>, <<le>>, rf, Some(Tup([i \in 1..n |-> 0], n))) :
            pos \in [1..n -> PosSet], ls \in LamSet, le \in LamSet,
            rf \in BOOLEAN} :
         n \in Sizes(gp)}

BatchArgs(gp) ==
  UNION {{Arg(Layout(n), lam, lam, rf, b) :
            lam \in UNION {[1..k -> LamSet] : k \in 1..MaxMol},
            rf \in BOOLEAN,
            b \in {None} \cup {Some(v) : v \in SortedBatches(n)}} :
         n \in Sizes(gp)}

\* the same arguments with the atom_features of the same batch
WithFeatures(a) ==
  [a EXCEPT !.atom_features =
     Some(AtomFeatures(Len(a.positions), a.batch, a.lambda_electrostatics,
                       a.lambda_sterics))]

MainArgs(gp) ==
  LET plain == GeometryArgs(gp) \cup BatchArgs(gp)
  IN plain \cup {WithFeatures(a) : a \in plain}

End(op, a, out) ==
  /\ pc' = "done"
  /\ call' = [a EXCEPT !.op = op]
  /\ result' = out.ret
  /\ locals' = out.loc

Forward ==
  /\ pc = "idle" /\ cls = "GNN3"
  /\ \E a \in MainArgs(gnn_params) :
       End("forward", a,
           forward(gnn_params, _fraction, _max_num_neighbors, weights, a))
  /\ caller_pos' = requires_grad_(caller_pos)
  /\ UNCHANGED <<model, reps, dataset>>

JitForward ==
  /\ pc = "idle" /\ cls = "JitGNN"
  /\ \E a \in MainArgs(gnn_params) :
       End("jit_forward", a,
           jit_forward(gnn_params, _fraction, _max_num_neighbors, weights, a))
  /\ caller_pos' = requires_grad_(caller_pos)
  /\ UNCHANGED <<model, reps, dataset>>

\* the data objects a caller may pass to a base forward
DataArgs ==
  {WithFeatures(a) : a \in
     {a \in [op : {""}, positions : UNION {[1..n -> PosSet] : n \in 1..MaxAtoms},
             lambda_sterics : {<<l>> : l \in LamSet},
             lambda_electrostatics : {<<l>> : l \in LamSet},
             retrieve_forces : {FALSE},
             batch : {None} \cup {Some(b) : b \in UNION {SortedBatches(n) : n \in 1..MaxAtoms}},
             atom_features : {None}] :
        /\ a.lambda_sterics = a.lambda_electrostatics
        /\ a.batch.given => Len(a.batch.val) = Len(a.positions)}}

GBNeckForward ==
  /\ pc = "idle" /\ cls = "GNN_GBNeck"
  /\ \E a \in DataArgs, junk \in JunkSet :
       End("gbneck_forward", a,
           gbneck_forward(FALSE, _gbparameters, base_radius, _max_num_neighbors,
                          a, junk))
  /\ caller_pos' = requires_grad_(clone_detach(caller_pos))
  /\ UNCHANGED <<model, reps, dataset>>

GBNeck2Forward ==
  /\ pc = "idle" /\ cls = "GNN_GBNeck_2"
  /\ \E a \in DataArgs, junk \in JunkSet :
       End("gbneck2_forward", a,
           gbneck_forward(TRUE, _gbparameters, base_radius, _max_num_neighbors,
                          a, junk))
  /\ caller_pos' = requires_grad_(clone_detach(caller_pos))
  /\ UNCHANGED <<model, reps, dataset>>

RunForward ==
  /\ pc = "idle" /\ cls = RunClass
  /\ \E pos \in [1..(_num_reps * Len(_gbparameters)) -> RunPosSet] :
       End("run_forward", [NoCall EXCEPT !.positions = pos],
           run_forward(_edge_index, _batch_gbparameters, _fraction, weights, pos))
  /\ UNCHANGED <<model, reps, dataset, caller_pos>>

\* set_num_reps(num_reps)
SetNumReps ==
  /\ pc = "idle" /\ cls = RunClass
  /\ \E k \in 1..MaxReps :
       /\ k * Len(_gbparameters) <= MaxAtoms + 1
       /\ _num_reps' = k
       /\ _batch' = rep_batch(Len(_gbparameters), k)
       /\ _batch_gbparameters' = repeat(_gbparameters, k)
  /\ UNCHANGED <<model, _edge_index, dataset, caller_pos, pc, call, result, locals>>

\* get_edge_features(distances, alpha, max_range, min_range, num_kernels),
\* called on a base model
GetEdgeFeatures ==
  /\ pc = "idle" /\ cls \in BaseClasses
  /\ \E d \in DistanceSet, alpha \in AlphaSet, rg \in RangeSet, nk \in KernelCounts :
       /\ pc' = "done"
       /\ call' = [op |-> "get_edge_features", distance |-> d, alpha |-> alpha,
                   min_range |-> rg[1], max_range |-> rg[2], num_kernels |-> nk]
       /\ result' = get_edge_features(d, alpha, rg[2], rg[1], nk)
       /\ locals' = NoLocals
  /\ UNCHANGED <<model, reps, dataset, caller_pos>>

\* build_edge_idx(num_nodes, num_reps), called on a run_multiple model
BuildEdgeIdx ==
  /\ pc = "idle" /\ cls = RunClass
  /\ \E n \in 1..MaxAtoms, k \in 1..MaxReps :
       /\ pc' = "done"
       /\ call' = [op |-> "build_edge_idx", num_nodes |-> n, num_reps |-> k]
       /\ result' = [kind |-> "edge_index", error |-> "",
                     val |-> build_edge_idx(n, k)]
       /\ locals' = NoLocals
  /\ UNCHANGED <<model, reps, dataset, caller_pos>>

\* MAFBigBind.__getitem__(index)
MAFGetItem ==
  /\ pc = "idle" /\ cls = "MAFBigBind"
  /\ \E index \in 0..(Len(file) + 1) :
       /\ pc' = "done"
       /\ call' = [op |-> "maf_getitem", index |-> index]
       /\ result' = maf_getitem(file, index)
       /\ locals' = NoLocals
  /\ UNCHANGED <<model, reps, dataset, caller_pos>>

\* BigBindSolvDataset.__getitem__(index)
BigBindGetItem ==
  /\ pc = "idle" /\ cls = "BigBindSolvDataset"
  /\ \E index \in 0..(bigbind_len(file, frame_index) + 1), rnd \in 0..(MaxFrames - 1) :
       /\ LET frames == file[(index % Len(file)) + 1].frames
          IN IF frames < frame_index THEN rnd < frames ELSE rnd = 0
       /\ pc' = "done"
       /\ call' = [op |-> "bigbind_getitem", index |-> index]
       /\ result' = bigbind_getitem(file, frame_index, index, rnd)
       /\ locals' = NoLocals
  /\ UNCHANGED <<model, reps, dataset, caller_pos>>

\* the caller takes the result and prepares the positions of its next call
Done ==
  /\ pc = "done"
  /\ pc' = "idle" /\ call' = NoCall /\ result' = NoResult /\ locals' = NoLocals
  /\ caller_pos' \in CallerTensors
  /\ UNCHANGED <<model, reps, dataset>>

Next ==
  \/ Forward
  \/ JitForward
  \/ GBNeckForward
  \/ GBNeck2Forward
  \/ RunForward
  \/ SetNumReps
  \/ GetEdgeFeatures
  \/ BuildEdgeIdx
  \/ MAFGetItem
  \/ BigBindGetItem
  \/ Done

Spec == Init /\ [][Next]_vars

\* ------------------------------------------------------------------ claims

MainOps == {"forward", "jit_forward"}
Ended == pc = "done"
Completed == Ended /\ result.kind # "raise"
Atoms == 1..Len(call.positions)

\* the batch ids are exactly 0 .. M-1 for some M >= 1
Contiguous(b) == \A k \in 0..MaxOf(b) : \E i \in 1..Len(b) : b[i] = k

\* C1: every call of the main forward (and of JitGNN.forward) that completes
\* without an error returns the energy, with the forces when they are
\* requested and without them when they are not.
C1_EnergyReturned ==
  (Completed /\ call.op \in MainOps)
    => /\ Len(result.energy) >= 1
       /\ call.retrieve_forces => result.forces.n = Len(call.positions)

\* C2: the energy a base forward or the main forward returns for a batch of M
\* molecules has M values, and the value of molecule b is the sum of the
\* per-atom energies of the atoms whose batch id is b.
C2_EnergyPerMolecule ==
  (Ended /\ result.kind = "tuple" /\ call.batch.given
     /\ call.op \in MainOps \cup {"gbneck_forward", "gbneck2_forward"}
     /\ Contiguous(call.batch.val))
    => /\ Len(result.energy) = MaxOf(call.batch.val) + 1
       /\ \A k \in 1..(MaxOf(call.batch.val) + 1) :
            result.energy[k] =
              SumFn(locals.energies, {i \in Atoms : call.batch.val[i] = k - 1})

\* C3: the forces the main forward returns contain the contribution of the GB
\* polarization energy as well as that of the SA term: no stage between the
\* positions and the energy is cut from gradient tracking.
C3_ForcesTrackGB ==
  (Ended /\ result.kind = "tuple" /\ call.op \in MainOps)
    => result.forces.gb /\ result.forces.sa

\* C4: in the main forward and in the run_multiple forward the factor that
\* multiplies (radius + 0.14)^2 in the SA energy is a sigmoid value, strictly
\* between 0 and 1 for every atom.
C4_SAFactorInUnitInterval ==
  (Completed /\ call.op \in MainOps \cup {"run_forward"})
    => \A i \in 1..Len(locals.sa_factor) :
         0 < locals.sa_factor[i] /\ locals.sa_factor[i] < One

\* C5: for every atom the corrected Born radius is at least fraction times and
\* at most (1 + (1 - fraction)) times the raw aggregated Born term, which is
\* not negative.
C5_CorrectionBound ==
  (Completed /\ call.op \in MainOps \cup {"run_forward"})
    => \A i \in 1..Len(locals.Bcn) :
         locals.Bc[i].B >= 0
           => /\ _fraction * locals.Bc[i].B <= One * locals.Bcn[i].B
              /\ One * locals.Bcn[i].B <= (One + (One - _fraction)) * locals.Bc[i].B

\* C5 witness: a main forward with the default fraction that scaled one Born
\* term up and another one down
C5_Witness ==
  /\ Completed /\ call.op = "forward" /\ _fraction = default_fraction
  /\ \A i \in 1..Len(locals.Bcn) : locals.Bc[i].B > 0
  /\ \E i, j \in 1..Len(locals.Bcn) :
       /\ locals.Bcn[i].B > locals.Bc[i].B
       /\ locals.Bcn[j].B < locals.Bc[j].B

\* C6 as claimed: the multiplier of the raw Born term is the linear
\* interpolation between fraction (sigmoid 0) and 1 (sigmoid 1), so it stays
\* within [fraction, 1].
C6_InterpolatedToOne ==
  (Completed /\ call.op \in MainOps \cup {"run_forward"})
    => \A i \in 1..Len(locals.multiplier) :
         LET sg == Sigmoid(locals.c_scale[i])
         IN /\ One * locals.multiplier[i] = _fraction * (One - sg) + One * sg
            /\ _fraction <= locals.multiplier[i]
            /\ locals.multiplier[i] <= One

\* C6 amended: the multiplier of the raw Born term is the linear interpolation
\* between fraction (sigmoid 0) and 1 + (1 - fraction) (sigmoid 1): it is 1
\* when the sigmoid is one half, and it stays within
\* [fraction, 1 + (1 - fraction)].
C6_InterpolatedToTwoMinusFraction ==
  (Completed /\ call.op \in MainOps \cup {"run_forward"})
    => \A i \in 1..Len(locals.multiplier) :
         LET sg == Sigmoid(locals.c_scale[i])
             top == One + (One - _fraction)
         IN /\ One * locals.multiplier[i] = _fraction * (One - sg) + top * sg
            /\ 2 * sg = One => locals.multiplier[i] = One
            /\ _fraction <= locals.multiplier[i]
            /\ locals.multiplier[i] <= top

\* C6 witness: a main forward with the default fraction where the multiplier of
\* one atom is above 1 and that of another atom, at sigmoid one half, is 1
C6_Witness ==
  /\ Completed /\ call.op = "forward" /\ _fraction = default_fraction
  /\ \E i, j \in 1..Len(locals.multiplier) :
       /\ locals.multiplier[i] > One
       /\ 2 * Sigmoid(locals.c_scale[j]) = One /\ locals.multiplier[j] = One

\* the atoms of the molecules whose two lambdas are 0
ZeroLambdaAtoms ==
  {i \in Atoms : /\ call.lambda_sterics[locals.batch[i] + 1] = 0
                 /\ call.lambda_electrostatics[locals.batch[i] + 1] = 0}

\* C7: when lambda_sterics and lambda_electrostatics of a molecule are 0, the
\* energy of each of its atoms is 0, so the energy the main forward returns is
\* 0 when this is so for every molecule.
C7_ZeroLambdaZeroEnergy ==
  (Completed /\ call.op \in MainOps)
    => /\ \A i \in ZeroLambdaAtoms : locals.energies[i] = 0
       /\ (ZeroLambdaAtoms = Atoms /\ result.kind = "tuple")
            => result.energy = <<0>>

\* C7 witness: a main forward that returned the energy 0 for lambdas 0 although
\* the GB and the SA energies of its atoms are not 0
C7_Witness ==
  /\ Ended /\ result.kind = "tuple" /\ call.op = "forward"
  /\ ZeroLambdaAtoms = Atoms
  /\ result.energy = <<0>>
  /\ \A i \in Atoms : locals.elec_energies[i] # 0 /\ locals.sa_energies[i] # 0

\* C8: a main forward with neither input representation (gnn_params unset and
\* no atom_features) fails with "No GNN Params Given", whether or not a batch
\* is passed.
C8_NoParamsError ==
  (Ended /\ call.op = "forward" /\ ~gnn_params.given /\ ~call.atom_features.given)
    => result.kind = "raise" /\ result.error = "No GNN Params Given"

\* C9: a main forward without the batch argument treats all atoms as one
\* molecule (batch id 0 for every atom) and completes, for both input
\* representations.
C9_BatchOmitted ==
  (Ended /\ call.op = "forward" /\ ~call.batch.given
     /\ (gnn_params.given \/ call.atom_features.given)
     /\ Len(call.lambda_sterics) = 1)
    => /\ result.kind # "raise"
       /\ locals.batch = Tup([i \in Atoms |-> 0], Len(call.positions))

\* C10: a main forward over M molecules (batch ids 0 .. M-1) with one lambda
\* pair per molecule completes, and every atom carries the lambdas and the
\* lambda scales of the molecule its batch id names, for both input
\* representations.
C10_LambdaOfOwnMolecule ==
  (Ended /\ call.op = "forward" /\ call.batch.given
     /\ (gnn_params.given \/ call.atom_features.given)
     /\ Contiguous(call.batch.val)
     /\ Len(call.lambda_sterics) = MaxOf(call.batch.val) + 1)
    => /\ result.kind # "raise"
       /\ \A i \in Atoms :
            LET k == call.batch.val[i] + 1
            IN /\ locals.x[i].le = call.lambda_electrostatics[k]
               /\ locals.x[i].ls = call.lambda_sterics[k]
               /\ locals.l_electrostatics[i] =
                    lambda_scale(weights.ffe, call.lambda_electrostatics)[k]
               /\ locals.l_sterics[i] =
                    lambda_scale(weights.ffs, call.lambda_sterics)[k]

\* the forwards that take a batch vector
BatchedOps == MainOps \cup {"gbneck_forward", "gbneck2_forward"}

\* C11: a forward whose batch ids skip a molecule index, or (main forward)
\* whose lambda arrays do not have one entry per molecule, ends in an error
\* before anything is computed: it returns no energy and leaves no per-atom
\* state.
C11_ContractViolationRejected ==
  (Ended /\ call.op \in BatchedOps /\ call.batch.given
     /\ Len(call.batch.val) = Len(call.positions)
     /\ \/ ~Contiguous(call.batch.val)
        \/ /\ call.op \in MainOps
           /\ \/ Len(call.lambda_sterics) # MaxOf(call.batch.val) + 1
              \/ Len(call.lambda_electrostatics) # MaxOf(call.batch.val) + 1)
    => result.kind = "raise" /\ locals = NoLocals

\* the group a dataset call selects, when the index selects one
DatasetOps == {"maf_getitem", "bigbind_getitem"}
SelectsGroup ==
  /\ Ended /\ call.op \in DatasetOps
  /\ call.op = "maf_getitem" => call.index < Len(file)
SelectedGroup == file[(call.index % Len(file)) + 1]

\* C12: a dataset item whose positions have zero atoms is reported by an
\* error, one that differs from the index-out-of-bounds error of the same
\* operation; no __getitem__ returns an item built from empty positions.
C12_EmptyInputReported ==
  (SelectsGroup /\ SelectedGroup.atoms = 0)
    => /\ result.kind = "raise"
       /\ result.error # "IndexError: Index out of bounds"

\* the ordered pairs of distinct rows of one replica, rows counted from 0
ReplicaPairs(n, k) ==
  {pr \in (0..(k * n - 1)) \X (0..(k * n - 1)) :
     pr[1] # pr[2] /\ pr[1] \div n = pr[2] \div n}

ForwardOps == BatchedOps \cup {"run_forward"}

\* C14: every edge of the long-range graph a forward used for the GB
\* aggregation and the GB energy joins two atoms whose distance is within the
\* long-range cutoff the model was constructed with, in every model variant.
C14_LongRangeWithinCutoff ==
  (Completed /\ call.op \in ForwardOps)
    => \A e \in locals.edge_index :
         Abs(call.positions[e[1]] - call.positions[e[2]]) <= long_range_cutoff(cls)

\* C15: get_edge_features returns one value per center, num_kernels of them;
\* the centers are evenly spaced from min_range + margin to max_range - margin
\* with margin = alpha * (max_range - min_range) / (num_kernels + 1); the value
\* of a center is max(0, (1 - ((d - center) / margin)^2)^3): 0 when
\* |d - center| >= margin, and in (0, 1] otherwise.
C15_KernelValues ==
  (Ended /\ call.op = "get_edge_features")
    => LET nk == call.num_kernels
           sc == Scale(nk)
           m == result.margin
           c == result.centers
           v == result.val
       IN /\ Len(v) = nk /\ Len(c) = nk
          /\ m * (nk + 1) = call.alpha * (call.max_range - call.min_range) * sc
          /\ c[1] = call.min_range * sc + m
          /\ nk > 1 => c[nk] = call.max_range * sc - m
          /\ \A j \in 1..(nk - 2) : c[j + 1] - c[j] = c[j + 2] - c[j + 1]
          /\ \A j \in 1..nk :
               LET k == call.distance * sc - c[j]
               IN /\ v[j].den = m * m * m * m * m * m
                  /\ v[j].num = Max0((m * m - k * k) * (m * m - k * k) * (m * m - k * k))
                  /\ Abs(k) >= m => v[j].num = 0
                  /\ Abs(k) < m => (0 < v[j].num /\ v[j].num <= v[j].den)
                  /\ k = 0 => v[j].num = v[j].den

\* C15 witness: three kernels, the distance on the first center (value 1) and
\* a margin away from the second (value 0)
C15_Witness ==
  /\ Ended /\ call.op = "get_edge_features" /\ call.num_kernels = 3
  /\ result.centers[1] # result.centers[2]
  /\ result.val[1].num = result.val[1].den
  /\ result.val[2].num = 0

\* the first and the last atom of molecule b in a sorted batch vector
FirstOf(batch, b) == CHOOSE i \in 1..Len(batch) :
                       batch[i] = b /\ \A j \in 1..(i - 1) : batch[j] # b
LastOf(batch, b) == CHOOSE i \in 1..Len(batch) :
                      batch[i] = b /\ \A j \in (i + 1)..Len(batch) : batch[j] # b

\* the main forward of the call on molecule b alone: its atoms, its parameter
\* rows and its pair of lambdas, the model and the weights being the same
AloneForward(b) ==
  LET lo == FirstOf(call.batch.val, b)
      hi == LastOf(call.batch.val, b)
      n == hi - lo + 1
      a == [call EXCEPT
              !.positions = SubSeq(call.positions, lo, hi),
              !.lambda_sterics = <<call.lambda_sterics[b + 1]>>,
              !.lambda_electrostatics = <<call.lambda_electrostatics[b + 1]>>,
              !.batch = Some(Tup([i \in 1..n |-> 0], n)),
              !.atom_features =
                 IF call.atom_features.given
                   THEN Some(SubSeq(call.atom_features.val, lo, hi))
                   ELSE None]
      gp == IF gnn_params.given THEN Some(SubSeq(gnn_params.val, lo, hi)) ELSE None
  IN [lo |-> lo, hi |-> hi,
      out |-> forward(gp, _fraction, _max_num_neighbors, weights, a)]

\* the run_multiple forward of the call on replica r alone, by a model of the
\* same molecule constructed with one replica
AloneRunForward(r) ==
  LET n == Len(_gbparameters)
  IN run_forward(build_edge_idx(n, 1), repeat(_gbparameters, 1), _fraction,
                 weights, SubSeq(call.positions, r * n + 1, (r + 1) * n))

\* C16: a batched main forward over molecules 0 .. M-1, one lambda pair each,
\* gives every atom the energy the forward of its molecule alone gives it (so
\* the same energy per molecule and the same sum), and so does the
\* run_multiple forward over its replicas.
C16_BatchConsistency ==
  /\ (Ended /\ call.op = "forward" /\ call.batch.given
        /\ (gnn_params.given \/ call.atom_features.given)
        /\ Contiguous(call.batch.val)
        /\ Len(call.lambda_sterics) = MaxOf(call.batch.val) + 1
        /\ Len(call.lambda_electrostatics) = MaxOf(call.batch.val) + 1)
       => \A b \in 0..MaxOf(call.batch.val) :
            LET one == AloneForward(b)
            IN one.out.ret.kind # "raise"
                 => /\ result.kind # "raise"
                    /\ SubSeq(locals.energies, one.lo, one.hi) = one.out.loc.energies
  /\ (Ended /\ call.op = "run_forward")
       => \A r \in 0..(_num_reps - 1) :
            LET n == Len(_gbparameters)
                one == AloneRunForward(r)
            IN one.ret.kind # "raise"
                 => /\ result.kind # "raise"
                    /\ SubSeq(locals.energies, r * n + 1, (r + 1) * n) = one.loc.energies

\* the relabelings of n atoms, and a per-atom sequence relabeled by p
Perms(n) == {p \in [1..n -> 1..n] : \A i, j \in 1..n : p[i] = p[j] => i = j}
Permute(sq, p) == Tup([i \in 1..Len(sq) |-> sq[p[i]]], Len(sq))
PermuteOpt(o, p) == IF o.given THEN Some(Permute(o.val, p)) ELSE None

\* the main forward of the call with its atoms relabeled by p: positions, batch
\* ids and parameter rows (atom_features, gnn_params) in the new order
RelabeledForward(p) ==
  forward(PermuteOpt(gnn_params, p), _fraction, _max_num_neighbors, weights,
          [call EXCEPT !.positions = Permute(call.positions, p),
                       !.batch = PermuteOpt(call.batch, p),
                       !.atom_features = PermuteOpt(call.atom_features, p)])

\* C17: relabeling the atoms of a main forward (positions, parameter rows and
\* batch ids alike) leaves the returned energy unchanged and returns forces
\* for the same atoms, also when the max-neighbours cap drops edges.
C17_PermutationInvariant ==
  (Ended /\ call.op = "forward" /\ result.kind = "tuple")
    => \A p \in Perms(Len(call.positions)) :
         LET other == RelabeledForward(p).ret
         IN /\ other.kind = "tuple"
            /\ other.energy = result.energy
            /\ other.forces = result.forces

\* C18: a forward evaluation leaves the caller's positions (the tensor passed,
\* or the pos field of the data object, with its gradient-tracking flag) and
\* every attribute of the model as they were before the call.
C18_ForwardPure ==
  [][(pc = "idle" /\ pc' = "done" /\ call'.op \in ForwardOps)
       => (caller_pos' = caller_pos /\ UNCHANGED <<model, reps>>)]_vars

\* the forwards that pass a short-range graph to the interaction layers
CorrectedOps == MainOps \cup {"run_forward"}

\* C19: in every variant each edge of the short-range graph handed to the
\* interaction layers joins two atoms no further apart than the configured
\* radius (0.4), and in run_multiple it is a subset of the long-range edges.
C19_ShortRangeWithinRadius ==
  (Completed /\ call.op \in CorrectedOps)
    => /\ \A e \in locals.gnn_edge_index :
            Abs(call.positions[e[1]] - call.positions[e[2]]) <= gnn_radius
       /\ call.op = "run_forward" => locals.gnn_edge_index \subseteq locals.edge_index

\* C20: whenever a run_multiple model is at rest, after its construction and
\* any set_num_reps calls, _batch and _batch_gbparameters have num_reps * n
\* rows and _edge_index holds each ordered pair of distinct rows of one of the
\* num_reps replicas exactly once, and nothing else.
C20_ReplicaStateAgrees ==
  cls = RunClass
    => LET n == Len(_gbparameters)
           k == _num_reps
       IN /\ Len(_batch) = k * n
          /\ Len(_batch_gbparameters) = k * n
          /\ Len(_edge_index) = k * n * (n - 1)
          /\ \A sl \in 1..Len(_edge_index) : _edge_index[sl] \in ReplicaPairs(n, k)
          /\ \A pr \in ReplicaPairs(n, k) :
               Cardinality({sl \in 1..Len(_edge_index) : _edge_index[sl] = pr}) = 1

\* every group of the file holds at least frame_index frames
EnoughFrames == \A g \in 1..Len(file) : file[g].frames >= frame_index

\* the (molecule, frame) pair __getitem__(index) returns when no frame is drawn
PairOf(index) ==
  LET item == bigbind_getitem(file, frame_index, index, 0)
  IN <<item.mol, item.frame>>

\* C21: for a BigBindSolvDataset of L molecules with frame_index F whose
\* molecules all hold at least F frames, __getitem__(index) returns molecule
\* index % L and frame index % F, no other index below L * F returns the same
\* pair, and every pair (m < L, f < F) is returned for some index below L * F.
C21_IndexMapsToDistinctPairs ==
  (Ended /\ call.op = "bigbind_getitem" /\ EnoughFrames
     /\ call.index < bigbind_len(file, frame_index))
    => LET L == Len(file)
           F == frame_index
           Indices == 0..(bigbind_len(file, frame_index) - 1)
       IN /\ result.mol = call.index % L
          /\ result.frame = call.index % F
          /\ \A j \in Indices : PairOf(j) = PairOf(call.index) => j = call.index
          /\ \A m \in 0..(L - 1), f \in 0..(F - 1) :
               \E j \in Indices : PairOf(j) = <<m, f>>

\* len(dataset) of the dataset at hand
dataset_len ==
  IF cls = "MAFBigBind" THEN Len(file) ELSE bigbind_len(file, frame_index)

\* the IndexErrors a dataset raises
IndexErrors ==
  {"IndexError: Index out of bounds", "IndexError: Empty positions encountered"}

RaisedIndexError == result.kind = "raise" /\ result.error \in IndexErrors

\* C22: in both dataset classes __getitem__(i) raises IndexError for every
\* i >= len(dataset) and for no i below it, so that reading i = 0, 1, 2, ...
\* until IndexError ends after exactly len(dataset) items.
C22_IndexErrorPastEnd ==
  (Ended /\ call.op \in DatasetOps)
    => (RaisedIndexError <=> call.index >= dataset_len)

====
